---- MODULE Spec2Model ----
(***************************************************************************)
(* Model of the incremental aggregation engine of src/main.py:            *)
(* loc_query (repository enumeration), cache_builder (ledger validation,   *)
(* reconciliation, persist), flush_cache (rebuild), recursive_loc and      *)
(* loc_counter_one_repo (paginated commit-history reduction with retry)    *)
(* and force_close_file (flush before raise).                              *)
(*                                                                         *)
(* One action is one response of the remote API together with all the     *)
(* code that runs until the next remote call is issued (the program is    *)
(* single-threaded and synchronous), except that the for loop of           *)
(* cache_builder is taken one index at a time.                             *)
(***************************************************************************)
EXTENDS Integers, Sequences, FiniteSets, TLC

\* ------------------------------------------------------------------------
\* Program constants
\* ------------------------------------------------------------------------
MAX_RETRIES == 3
RETRY_DELAY_BASE == 2
TRANSIENT_ERROR_CODES == {502, 503, 504}
MAX_COMMITS_PER_REPO == 5000
\* history(first: 100, after: $cursor) in the query of recursive_loc
HISTORY_PAGE_SIZE == 100
\* repositories(first: 60, after: $cursor, ...) in the query of loc_query
REPOS_PAGE_SIZE == 60
\* loc_query([...], 7) in __main__: the comment block of the ledger file
COMMENT_SIZE == 7
\* the status codes the remote answers with: success, the transient class,
\* the rate-limit code and one other non-transient failure
STATUS_OK == 200
STATUS_RATE_LIMIT == 403
NonTransientCodes == {500}
FailureCodes == TRANSIENT_ERROR_CODES \cup {STATUS_RATE_LIMIT} \cup NonTransientCodes

\* ------------------------------------------------------------------------
\* Bounds of the model
\* ------------------------------------------------------------------------
\* repository identities the small remote states draw from
MaxId == 2
\* longest enumeration of a small remote state
MaxRepos == 2
\* largest commit count of a repository of a small remote state
MaxCommits == 2
\* calls of loc_query in one behaviour
MaxRuns == 2
\* remote-side changes in one behaviour
MaxChanges == 1
\* the enumeration that spans two pages
BigEnumLen == REPOS_PAGE_SIZE + 1
\* the histories of the reducer's specification: one commit, three pages, the
\* ceiling, and two pages more than the ceiling
MidHistoryLen == 2 * HISTORY_PAGE_SIZE + 1
BigHistoryLen == MAX_COMMITS_PER_REPO + 2 * HISTORY_PAGE_SIZE
BigHistoryId == MaxId + 1

VARIABLES
    remote,          \* the remote: the enumeration, in order, with each repository's branch and commit count
    file,            \* the ledger file on disk: [exists, lines]
    defaultEdges,    \* the list object bound to loc_query's default argument edges=[]
    pc,              \* "idle", "enum", "reconcile", "fetch", "returned", "raised", "stopped", "done"
    cursor,          \* loc_query: repositories already enumerated (None = 0)
    force_cache,     \* loc_query / cache_builder argument
    edges,           \* cache_builder: the enumeration handed over by loc_query
    cached,          \* cache_builder: the fourth element of its result
    cache_comment,   \* cache_builder: data[:comment_size]
    data,            \* cache_builder: data[comment_size:], the ledger in memory
    index,           \* cache_builder: loop index (0-based)
    addition_total,  \* recursive_loc arguments
    deletion_total,
    my_commits,
    hcursor,         \* recursive_loc: cursor, as commits already paged over (None = 0)
    retry_count,
    commits_fetched,
    result,          \* what loc_query returned: <<loc_add, loc_del, net, cached>>
    exc,             \* the exception the caller of loc_query observed, or "none"
    \* history variables, read by the properties only
    data0,           \* the ledger in memory when the reconciliation loop started
    lenBefore,       \* data lines found in the file when cache_builder opened it
    refreshed,       \* indexes for which recursive_loc was called in this run
    sleeps,          \* time.sleep delays of the page call last retried, in order
    flushes,         \* calls of force_close_file in this run
    pages,           \* successful history pages of the reduction in progress
    status,          \* status code of the last response of a commit-history call (0: none yet)
    malformed,       \* indexes whose history call answered 200 with a malformed payload
    glitch,          \* some call of this run did not answer 200 with a well-formed payload
    prev,            \* outcome of the last run: [valid, result, file]
    cmp,             \* prev as it was when this run started
    runs,
    changes,
    \* __main__ after loc_query
    archive,         \* cache/repository_archive.txt: [exists, lines], a line being its tokens
    primary,         \* OWNER_ID == {"id": os.getenv("NODE_ID")}
    out,             \* the values __main__ hands to svg_overwrite, or NoOut
    \* history variable, read by the properties only
    tally            \* the retries and the seconds slept of the reduction in progress, where recorded

mainVars == <<archive, primary, out>>

vars == <<remote, file, defaultEdges, pc, cursor, force_cache, edges, cached,
          cache_comment, data, index, addition_total, deletion_total, my_commits,
          hcursor, retry_count, commits_fetched, result, exc, data0, lenBefore,
          refreshed, sleeps, flushes, pages, status, malformed, glitch, prev, cmp, runs,
          changes, archive, primary, out, tally>>

\* ------------------------------------------------------------------------
\* Values
\* ------------------------------------------------------------------------
Min(a, b) == IF a < b THEN a ELSE b

\* Python slice s[a:b] (0-based, b exclusive), clipped like Python clips it
Slice(s, a, b) == SubSeq(s, a + 1, Min(b, Len(s)))

\* nameWithOwner "owner/name" of repository k
NameWithOwner(k) == <<"owner", k>>

\* hashlib.sha256(name.encode("utf-8")).hexdigest(): a digest, taken to be
\* collision-free; a digest is never equal to the name it was taken from
sha256(name) == <<"sha256", name>>

\* the author object {"id": ...} the commits are compared against
OWNER_ID == "me"

\* defaultBranchRef of an edge of the enumeration: None, or the commit count
NoneRef == [none |-> TRUE]
BranchRef(n) == [none |-> FALSE, totalCount |-> n]

\* one line of the ledger file: a comment line or "<hash> <total> <mine> <add> <del>\n"
CommentLine == [comment |-> "This line is a comment block. Write whatever you want here."]
Line(h, total, mine, add, del) ==
    [hash |-> h, total |-> total, mine |-> mine, add |-> add, del |-> del]
ZeroLine(h) == Line(h, 0, 0, 0, 0)

NoFile == [exists |-> FALSE, lines |-> <<>>]
OnDisk(lines) == [exists |-> TRUE, lines |-> lines]

\* a ledger file whose comment block the user has written, with no data line yet
UserCommentLine(i) == [comment |-> "written by the user", line |-> i]
UserLedger == OnDisk([i \in 1..COMMENT_SIZE |-> UserCommentLine(i)])

\* ------------------------------------------------------------------------
\* The remote
\* ------------------------------------------------------------------------
Repo(k, n) == [id |-> k, branch |-> n > 0, total |-> n]

RECURSIVE SeqsUpTo(_, _)
SeqsUpTo(S, n) ==
    IF n = 0 THEN {<<>>}
    ELSE LET shorter == SeqsUpTo(S, n - 1)
         IN shorter \cup {Append(s, x) : s \in shorter, x \in S}

Ids(r) == {r[i].id : i \in 1..Len(r)}

\* the enumerations a behaviour starts from: at most MaxRepos repositories,
\* identities ascending (a rename brings the other orders)
SmallRemotes ==
    {r \in SeqsUpTo({Repo(k, n) : k \in 1..MaxId, n \in 0..MaxCommits}, MaxRepos) :
        \A i \in 1..Len(r), j \in 1..Len(r) : i < j => r[i].id < r[j].id}

\* BigEnumLen repositories, the first with one commit and the others empty
BigEnum == [i \in 1..BigEnumLen |-> Repo(MaxId + 1 + i, IF i = 1 THEN 1 ELSE 0)]

\* one repository with a history of n commits; BigHistoryLen is more than
\* MAX_COMMITS_PER_REPO
OneHistory(n) == <<Repo(BigHistoryId, n)>>
Histories ==
    {OneHistory(n) : n \in {1, MidHistoryLen, MAX_COMMITS_PER_REPO, BigHistoryLen}}

\* commit i (1 = oldest) of repository k: its author and its line counts
CommitAuthor(k, i) == IF (k + i) % 4 # 0 THEN OWNER_ID ELSE "other"
CommitAdditions(k, i) == 1 + (i % 3)
CommitDeletions(k, i) == i % 2

\* the edges of an enumeration page: nameWithOwner and defaultBranchRef
EdgeOf(r) ==
    [nameWithOwner |-> NameWithOwner(r.id),
     defaultBranchRef |-> IF r.branch THEN BranchRef(r.total) ELSE NoneRef]

\* the repository the remote holds under a name, as a set (empty: repository is null)
Lookup(name) == {remote[i] : i \in {j \in 1..Len(remote) : NameWithOwner(remote[j].id) = name}}

\* history(first: 100, after: $cursor) of repository r: the edges at positions
\* c+1..hi (newest first: position p holds commit total - p + 1), and pageInfo
HistoryPage(r, c) ==
    LET hi == Min(c + HISTORY_PAGE_SIZE, r.total)
    IN [id |-> r.id, total |-> r.total, lo |-> c + 1, hi |-> hi,
        hasNextPage |-> hi < r.total, endCursor |-> hi]

\* ------------------------------------------------------------------------
\* Pure parts of the code
\* ------------------------------------------------------------------------
\* a count that takes every commit for one of the tracked author
EdgeCountAnyAuthor(page, pos) ==
    LET c == page.total - pos + 1
    IN [mine |-> 1, add |-> CommitAdditions(page.id, c),
        del |-> CommitDeletions(page.id, c)]

\* what one edge adds to (my_commits, addition_total, deletion_total):
\* if node["node"]["author"]["user"] == OWNER_ID: my_commits += 1; ...
EdgeCount(page, pos) ==
    LET c == page.total - pos + 1
    IN IF CommitAuthor(page.id, c) = OWNER_ID
       THEN [mine |-> 1, add |-> CommitAdditions(page.id, c),
             del |-> CommitDeletions(page.id, c)]
       ELSE [mine |-> 0, add |-> 0, del |-> 0]

RECURSIVE CountRange(_, _, _)
\* the sums of EdgeCount over the positions lo..hi (halving the range keeps
\* the evaluation shallow; the sums are those of the loop, left to right)
CountRange(page, lo, hi) ==
    IF lo > hi THEN [mine |-> 0, add |-> 0, del |-> 0]
    ELSE IF lo = hi THEN EdgeCount(page, lo)
    ELSE LET mid == (lo + hi) \div 2
             a == CountRange(page, lo, mid)
             b == CountRange(page, mid + 1, hi)
         IN [mine |-> a.mine + b.mine, add |-> a.add + b.add, del |-> a.del + b.del]

\* the for loop of loc_counter_one_repo over history["edges"], on top of the
\* totals acc the call was given
CountEdges(page, acc) ==
    LET c == CountRange(page, page.lo, page.hi)
    IN [mine |-> acc.mine + c.mine, add |-> acc.add + c.add, del |-> acc.del + c.del]

\* a delay that grows by the base instead of doubling
RetryDelayLinear(rc) == RETRY_DELAY_BASE * (rc + 1)

\* delay = RETRY_DELAY_BASE * (2**retry_count)
RetryDelay(rc) == RETRY_DELAY_BASE * (2 ^ rc)

\* a retry bound that is one short
ShouldRetryOneLess(st, rc) == st \in TRANSIENT_ERROR_CODES /\ rc < MAX_RETRIES - 1

\* a retry for every failure status
ShouldRetryAnyStatus(st, rc) == rc < MAX_RETRIES

\* a retry bound that is off by one
ShouldRetryOnceMore(st, rc) == st \in TRANSIENT_ERROR_CODES /\ rc <= MAX_RETRIES

\* request.status_code in TRANSIENT_ERROR_CODES and retry_count < MAX_RETRIES
ShouldRetry(st, rc) == st \in TRANSIENT_ERROR_CODES /\ rc < MAX_RETRIES

\* commits_fetched of the retrying call recursive_loc(..., cursor, retry_count + 1):
\* the argument is not passed, so the parameter takes its default
RetryCommitsFetched(fetched) == 0

\* a retry counter that is carried from one page to the next
NextPageRetryCountCarried(rc) == rc

\* retry_count of the call for the next page, recursive_loc(..., endCursor,
\* commits_fetched=commits_fetched): not passed, so the default
NextPageRetryCount(rc) == 0

\* history["edges"] == [] or not history["pageInfo"]["hasNextPage"]
LastPage(page) == page.hi < page.lo \/ ~page.hasNextPage

\* commits_fetched >= MAX_COMMITS_PER_REPO
HitLimit(fetched) == fetched >= MAX_COMMITS_PER_REPO

\* a rebuild only when the enumeration grew
NeedsRebuildOnGrowth(nLines, nEdges, fc) == nLines - COMMENT_SIZE < nEdges \/ fc

\* len(data) - comment_size != len(edges) or force_cache
NeedsRebuild(nLines, nEdges, fc) == nLines - COMMENT_SIZE # nEdges \/ fc

\* repo_hash == hashlib.sha256(edges[index]["node"]["nameWithOwner"]...).hexdigest()
HashMatches(line, edge) == line.hash = sha256(edge.nameWithOwner)

\* a comparison that reads the authored count, the third field of the line
IsStaleByAuthored(line, edge) == line.mine # edge.defaultBranchRef.totalCount

\* int(commit_count) != edges[index]...["history"]["totalCount"]
IsStale(line, edge) == line.total # edge.defaultBranchRef.totalCount

\* a rebuild that writes the zero lines only
flush_cache_no_comment(e, f) ==
    OnDisk([i \in 1..Len(e) |-> ZeroLine(sha256(e[i].nameWithOwner))])

\* flush_cache: the comment block of the file, then one zero line per edge
flush_cache(e, f) ==
    OnDisk((IF COMMENT_SIZE > 0 THEN Slice(f.lines, 0, COMMENT_SIZE) ELSE <<>>)
           \o [i \in 1..Len(e) |-> ZeroLine(sha256(e[i].nameWithOwner))])

\* a flush of the ledger as it was read, not of the list the loop updates
force_close_file_stale(d, cc) == OnDisk(cc \o data0)

\* force_close_file: writes cache_comment, then data
force_close_file(d, cc) == OnDisk(cc \o d)

\* the final write of cache_builder: cache_comment, then data
SaveCache(d, cc) == OnDisk(cc \o d)

\* data[index] = repo_hash + " " + str(totalCount) + " " + str(loc[2]) + " " + ...
RefreshedLine(line, edge, loc) ==
    Line(line.hash, edge.defaultBranchRef.totalCount, loc[3], loc[1], loc[2])

\* except TypeError: data[index] = repo_hash + " 0 0 0 0\n"
EmptyLine(line) == ZeroLine(line.hash)

RECURSIVE SumLines(_, _, _, _)
\* for line in data: loc_add += int(loc[3]); loc_del += int(loc[4])
\* (the sum of field fld over the lines lo..hi, halving the range)
SumLines(d, fld, lo, hi) ==
    IF lo > hi THEN 0
    ELSE IF lo = hi THEN d[lo][fld]
    ELSE LET mid == (lo + hi) \div 2
         IN SumLines(d, fld, lo, mid) + SumLines(d, fld, mid + 1, hi)
SumAdd(d) == SumLines(d, "add", 1, Len(d))
SumDel(d) == SumLines(d, "del", 1, Len(d))

\* return [loc_add, loc_del, loc_add - loc_del, cached]
Totals(d, c) == <<SumAdd(d), SumDel(d), SumAdd(d) - SumDel(d), c>>

\* the value of the flag cache_builder returns, given whether the ledger was rebuilt
CachedFlag(rebuilt) == ~rebuilt

\* ------------------------------------------------------------------------
\* Initial state: a fresh process, no ledger file yet
\* ------------------------------------------------------------------------
NoPrev == [valid |-> FALSE, result |-> <<>>, file |-> NoFile]

\* the tally of a reduction: not recorded, or the retries made and the seconds
\* slept since recursive_loc was called by cache_builder
TallyOff == [on |-> FALSE]
TallyZero == [on |-> TRUE, retries |-> 0, slept |-> 0]
\* cache_builder calls recursive_loc: a new reduction
TallyReset(t) == IF t.on THEN TallyZero ELSE t
\* time.sleep(delay) before the retrying call
TallySleep(t, delay) ==
    IF t.on THEN [on |-> TRUE, retries |-> t.retries + 1, slept |-> t.slept + delay]
    ELSE t

\* __main__ has not reached svg_overwrite
NoOut == [written |-> FALSE]

InitLocals ==
    /\ defaultEdges = <<>>
    /\ pc = "idle"
    /\ cursor = 0
    /\ force_cache = FALSE
    /\ edges = <<>>
    /\ cached = TRUE
    /\ cache_comment = <<>>
    /\ data = <<>>
    /\ index = 0
    /\ addition_total = 0
    /\ deletion_total = 0
    /\ my_commits = 0
    /\ hcursor = 0
    /\ retry_count = 0
    /\ commits_fetched = 0
    /\ result = <<>>
    /\ exc = "none"
    /\ data0 = <<>>
    /\ lenBefore = 0
    /\ refreshed = {}
    /\ sleeps = <<>>
    /\ flushes = 0
    /\ pages = 0
    /\ status = 0
    /\ malformed = {}
    /\ glitch = FALSE
    /\ prev = NoPrev
    /\ cmp = NoPrev
    /\ runs = 0
    /\ changes = 0
    /\ out = NoOut

InitProgram ==
    /\ file = NoFile
    /\ InitLocals

\* no archive file, and an identity that is not the designated one
NoArchive ==
    /\ archive = NoFile
    /\ primary = FALSE

\* the orchestrator's specification starts with a small remote, or with the
\* enumeration of two pages
Init ==
    /\ remote \in SmallRemotes \cup {BigEnum}
    /\ InitProgram
    /\ NoArchive
    /\ tally = TallyOff

\* the reducer's specification starts with one repository and its history
InitReduce ==
    /\ remote \in Histories
    /\ InitProgram
    /\ NoArchive
    /\ tally = TallyOff

\* the specification of the file's rewrites starts with the user's ledger file
InitFiles ==
    /\ remote \in SmallRemotes \cup {BigEnum}
    /\ file = UserLedger
    /\ InitLocals
    /\ NoArchive
    /\ tally = TallyOff

reducerVars == <<addition_total, deletion_total, my_commits, hcursor, retry_count,
                 commits_fetched>>
builderVars == <<edges, cached, cache_comment, data0, lenBefore>>
ghostFetch == <<sleeps, flushes, pages, status>>

\* ------------------------------------------------------------------------
\* cache_builder, from a handled line to the next remote call or to its return
\* ------------------------------------------------------------------------
\* After line i - 1 was handled with the ledger d in memory: the loop goes on at
\* index i, or (i = n) the file is written, the lines are folded and
\* cache_builder returns. f is the file as the loop leaves it, c the cached
\* flag, g whether some call of the run went wrong.
Continue(cc, d, i, n, f, c, g) ==
    /\ index' = i
    /\ data' = d
    /\ IF i = n
       THEN /\ pc' = "returned"
            /\ file' = SaveCache(d, cc)
            /\ result' = Totals(d, c)
            /\ prev' = [valid |-> ~g, result |-> Totals(d, c), file |-> SaveCache(d, cc)]
       ELSE /\ pc' = "reconcile"
            /\ file' = f
            /\ result' = result
            /\ prev' = prev

\* cache_builder up to its loop: open (or create) the file, validate, rebuild
CacheBuilder(e, g) ==
    LET read == IF file.exists THEN file.lines
                ELSE [i \in 1..COMMENT_SIZE |-> CommentLine]
        rebuild == NeedsRebuild(Len(read), Len(e), force_cache)
        f == IF rebuild THEN flush_cache(e, OnDisk(read)) ELSE OnDisk(read)
        cc == Slice(f.lines, 0, COMMENT_SIZE)
        d == Slice(f.lines, COMMENT_SIZE, Len(f.lines))
    IN /\ edges' = e
       /\ cached' = CachedFlag(rebuild)
       /\ cache_comment' = cc
       /\ data0' = d
       /\ lenBefore' = Len(read) - COMMENT_SIZE
       /\ Continue(cc, d, 0, Len(e), f, CachedFlag(rebuild), g)

\* ------------------------------------------------------------------------
\* Actions
\* ------------------------------------------------------------------------
\* The caller calls loc_query(owner_affiliation, 7, fc): cursor=None, edges=the default
StartRun(fc) ==
    /\ pc \in {"idle", "returned"}
    /\ runs < MaxRuns
    /\ pc' = "enum"
    /\ runs' = runs + 1
    /\ force_cache' = fc
    /\ cursor' = 0
    /\ edges' = <<>>
    /\ cached' = TRUE
    /\ cache_comment' = <<>>
    /\ data' = <<>>
    /\ data0' = <<>>
    /\ lenBefore' = 0
    /\ index' = 0
    /\ addition_total' = 0
    /\ deletion_total' = 0
    /\ my_commits' = 0
    /\ hcursor' = 0
    /\ retry_count' = 0
    /\ commits_fetched' = 0
    /\ result' = <<>>
    /\ exc' = "none"
    /\ refreshed' = {}
    /\ sleeps' = <<>>
    /\ flushes' = 0
    /\ pages' = 0
    /\ status' = 0
    /\ malformed' = {}
    /\ glitch' = FALSE
    /\ cmp' = prev
    /\ UNCHANGED <<remote, file, defaultEdges, prev, changes, mainVars, tally>>

\* loc_query: simple_request answers 200 and another page follows
LocQueryNextPage ==
    /\ pc = "enum"
    /\ cursor + REPOS_PAGE_SIZE < Len(remote)
    /\ defaultEdges' = defaultEdges
           \o [i \in 1..REPOS_PAGE_SIZE |-> EdgeOf(remote[cursor + i])]
    /\ cursor' = cursor + REPOS_PAGE_SIZE
    /\ UNCHANGED <<remote, file, pc, force_cache, edges, cached, cache_comment, data,
                   index, reducerVars, result, exc, data0, lenBefore, refreshed,
                   ghostFetch, malformed, glitch, prev, cmp, runs, changes, mainVars, tally>>

\* loc_query: simple_request answers 200 with the last page: cache_builder is called
LocQueryLastPage ==
    /\ pc = "enum"
    /\ cursor + REPOS_PAGE_SIZE >= Len(remote)
    /\ CacheBuilder(defaultEdges
                    \o [i \in 1..(Len(remote) - cursor) |-> EdgeOf(remote[cursor + i])],
                    glitch)
    /\ UNCHANGED <<remote, defaultEdges, cursor, force_cache, reducerVars, exc,
                   refreshed, ghostFetch, malformed, glitch, cmp, runs, changes, mainVars, tally>>

\* loc_query: simple_request raises on any status but 200; nothing was changed
LocQueryFails ==
    /\ pc = "enum"
    /\ pc' = "raised"
    /\ exc' = "loc_query"
    /\ glitch' = TRUE
    /\ prev' = NoPrev
    /\ UNCHANGED <<remote, file, defaultEdges, cursor, force_cache, edges, cached,
                   cache_comment, data, index, reducerVars, result, data0, lenBefore,
                   refreshed, ghostFetch, malformed, cmp, runs, changes, mainVars, tally>>

\* cache_builder loop: the stored hash is not the hash of the repository at this index
ReconcileMismatch ==
    /\ pc = "reconcile"
    /\ ~HashMatches(data[index + 1], edges[index + 1])
    /\ Continue(cache_comment, data, index + 1, Len(edges), file, cached, glitch)
    /\ UNCHANGED <<remote, defaultEdges, cursor, force_cache, builderVars, reducerVars,
                   exc, refreshed, ghostFetch, malformed, glitch, cmp, runs, changes, mainVars, tally>>

\* cache_builder loop: defaultBranchRef is None, the subscript raises TypeError
ReconcileEmpty ==
    /\ pc = "reconcile"
    /\ HashMatches(data[index + 1], edges[index + 1])
    /\ edges[index + 1].defaultBranchRef.none
    /\ Continue(cache_comment,
                [data EXCEPT ![index + 1] = EmptyLine(data[index + 1])],
                index + 1, Len(edges), file, cached, glitch)
    /\ UNCHANGED <<remote, defaultEdges, cursor, force_cache, builderVars, reducerVars,
                   exc, refreshed, ghostFetch, malformed, glitch, cmp, runs, changes, mainVars, tally>>

\* cache_builder loop: the stored commit count is the remote one, the line is kept
ReconcileCached ==
    /\ pc = "reconcile"
    /\ HashMatches(data[index + 1], edges[index + 1])
    /\ ~edges[index + 1].defaultBranchRef.none
    /\ ~IsStale(data[index + 1], edges[index + 1])
    /\ Continue(cache_comment, data, index + 1, Len(edges), file, cached, glitch)
    /\ UNCHANGED <<remote, defaultEdges, cursor, force_cache, builderVars, reducerVars,
                   exc, refreshed, ghostFetch, malformed, glitch, cmp, runs, changes, mainVars, tally>>

\* cache_builder loop: the commit count changed, recursive_loc(owner, repo_name, data,
\* cache_comment) is called with its defaults
ReconcileStale ==
    /\ pc = "reconcile"
    /\ HashMatches(data[index + 1], edges[index + 1])
    /\ ~edges[index + 1].defaultBranchRef.none
    /\ IsStale(data[index + 1], edges[index + 1])
    /\ pc' = "fetch"
    /\ addition_total' = 0
    /\ deletion_total' = 0
    /\ my_commits' = 0
    /\ hcursor' = 0
    /\ retry_count' = 0
    /\ commits_fetched' = 0
    /\ refreshed' = refreshed \cup {index}
    /\ sleeps' = <<>>
    /\ pages' = 0
    /\ tally' = TallyReset(tally)
    /\ UNCHANGED <<remote, file, defaultEdges, cursor, force_cache, builderVars, data,
                   index, result, exc, flushes, status, malformed, glitch, prev, cmp,
                   runs, changes, mainVars>>

\* the frames of recursive_loc and their locals are gone
FrameLocalsGone ==
    /\ addition_total' = 0
    /\ deletion_total' = 0
    /\ my_commits' = 0
    /\ hcursor' = 0
    /\ retry_count' = 0
    /\ commits_fetched' = 0

\* recursive_loc has returned
FramesGone ==
    /\ FrameLocalsGone
    /\ sleeps' = <<>>

\* recursive_loc: the page call answers 200 with a well-formed payload;
\* loc_counter_one_repo counts the page and returns or asks for the next page
HistoryPageOk ==
    /\ pc = "fetch"
    /\ Lookup(edges[index + 1].nameWithOwner) # {}
    /\ status' = STATUS_OK
    /\ LET edge == edges[index + 1]
           r == CHOOSE x \in Lookup(edge.nameWithOwner) : TRUE
           page == HistoryPage(r, hcursor)
           fetched == commits_fetched + (page.hi - page.lo + 1)
           acc == CountEdges(page, [mine |-> my_commits, add |-> addition_total,
                                    del |-> deletion_total])
       IN IF ~r.branch
          THEN \* defaultBranchRef is None: recursive_loc returns 0, and loc[2]
               \* raises TypeError in cache_builder
               /\ Continue(cache_comment,
                           [data EXCEPT ![index + 1] = EmptyLine(data[index + 1])],
                           index + 1, Len(edges), file, cached, glitch)
               /\ FramesGone
               /\ UNCHANGED pages
          ELSE /\ pages' = pages + 1
               /\ IF LastPage(page) \/ HitLimit(fetched)
                  THEN \* return addition_total, deletion_total, my_commits
                       /\ Continue(cache_comment,
                                   [data EXCEPT ![index + 1] =
                                       RefreshedLine(data[index + 1], edge,
                                                     <<acc.add, acc.del, acc.mine>>)],
                                   index + 1, Len(edges), file, cached, glitch)
                       /\ FramesGone
                  ELSE \* return recursive_loc(..., endCursor, commits_fetched=...)
                       /\ addition_total' = acc.add
                       /\ deletion_total' = acc.del
                       /\ my_commits' = acc.mine
                       /\ commits_fetched' = fetched
                       /\ hcursor' = page.endCursor
                       /\ retry_count' = NextPageRetryCount(retry_count)
                       /\ UNCHANGED <<pc, file, data, index, result, prev, sleeps>>
    /\ UNCHANGED <<remote, defaultEdges, cursor, force_cache, builderVars, exc,
                   refreshed, flushes, malformed, glitch, cmp, runs, changes, mainVars, tally>>

\* recursive_loc: the page call answers 200 with a malformed payload (data or
\* repository is null, or a commit's author is null): the subscript raises
\* TypeError, which the except clause of cache_builder takes for an empty repository
HistoryMalformed ==
    /\ pc = "fetch"
    /\ status' = STATUS_OK
    /\ malformed' = malformed \cup {index}
    /\ glitch' = TRUE
    /\ Continue(cache_comment,
                [data EXCEPT ![index + 1] = EmptyLine(data[index + 1])],
                index + 1, Len(edges), file, cached, TRUE)
    /\ FramesGone
    /\ UNCHANGED <<remote, defaultEdges, cursor, force_cache, builderVars,
                   exc, refreshed, flushes, pages, cmp, runs, changes, mainVars, tally>>

\* recursive_loc: a transient status with retries left: sleep, then the same page again
HistoryRetry(st) ==
    /\ pc = "fetch"
    /\ ShouldRetry(st, retry_count)
    /\ status' = st
    /\ sleeps' = Append(IF retry_count = 0 THEN <<>> ELSE sleeps, RetryDelay(retry_count))
    /\ retry_count' = retry_count + 1
    /\ commits_fetched' = RetryCommitsFetched(commits_fetched)
    /\ glitch' = TRUE
    /\ tally' = TallySleep(tally, RetryDelay(retry_count))
    /\ UNCHANGED <<remote, file, defaultEdges, pc, cursor, force_cache, builderVars,
                   data, index, addition_total, deletion_total, my_commits, hcursor,
                   result, exc, refreshed, flushes, pages, malformed, prev, cmp, runs,
                   changes, mainVars>>

\* recursive_loc: any other status: force_close_file, then raise
HistoryFails(st) ==
    /\ pc = "fetch"
    /\ ~ShouldRetry(st, retry_count)
    /\ status' = st
    /\ file' = force_close_file(data, cache_comment)
    /\ flushes' = flushes + 1
    /\ pc' = "raised"
    /\ exc' = IF st = STATUS_RATE_LIMIT THEN "rate_limit" ELSE "recursive_loc"
    /\ glitch' = TRUE
    /\ prev' = NoPrev
    /\ FrameLocalsGone
    /\ UNCHANGED <<remote, defaultEdges, cursor, force_cache, builderVars, data, index,
                   result, refreshed, pages, sleeps, malformed, cmp, runs, changes,
                   mainVars, tally>>

\* The process ends (after a result or an exception) and a new one starts: the
\* default argument of loc_query is a fresh list again
ProcessRestart ==
    /\ pc \in {"returned", "raised"}
    /\ pc' = "idle"
    /\ defaultEdges' = <<>>
    /\ cursor' = 0
    /\ force_cache' = FALSE
    /\ edges' = <<>>
    /\ cached' = TRUE
    /\ cache_comment' = <<>>
    /\ data' = <<>>
    /\ data0' = <<>>
    /\ lenBefore' = 0
    /\ index' = 0
    /\ addition_total' = 0
    /\ deletion_total' = 0
    /\ my_commits' = 0
    /\ hcursor' = 0
    /\ retry_count' = 0
    /\ commits_fetched' = 0
    /\ result' = <<>>
    /\ exc' = "none"
    /\ refreshed' = {}
    /\ sleeps' = <<>>
    /\ flushes' = 0
    /\ pages' = 0
    /\ status' = 0
    /\ malformed' = {}
    /\ glitch' = FALSE
    /\ cmp' = NoPrev
    /\ UNCHANGED <<remote, file, prev, runs, changes, mainVars, tally>>

localVars == <<defaultEdges, pc, cursor, force_cache, edges, cached, cache_comment,
               data, index, reducerVars, result, exc, data0, lenBefore, refreshed,
               ghostFetch, malformed, glitch, cmp, runs>>

\* Between two processes the remote changes: a commit is pushed to repository i
RemotePush(i) ==
    /\ pc = "idle"
    /\ changes < MaxChanges
    /\ Len(remote) <= MaxRepos
    /\ remote[i].total < MaxCommits
    /\ remote' = [remote EXCEPT ![i] = Repo(remote[i].id, remote[i].total + 1)]
    /\ changes' = changes + 1
    /\ prev' = NoPrev
    /\ UNCHANGED <<file, localVars, mainVars, tally>>

\* ... a repository appears at the end of the enumeration
RemoteAdd(k, n) ==
    /\ pc = "idle"
    /\ changes < MaxChanges
    /\ Len(remote) < MaxRepos
    /\ k \notin Ids(remote)
    /\ remote' = Append(remote, Repo(k, n))
    /\ changes' = changes + 1
    /\ prev' = NoPrev
    /\ UNCHANGED <<file, localVars, mainVars, tally>>

\* ... repository i is renamed: the same place and history under another name
RemoteRename(i, k) ==
    /\ pc = "idle"
    /\ changes < MaxChanges
    /\ Len(remote) <= MaxRepos
    /\ k \notin Ids(remote)
    /\ remote' = [remote EXCEPT ![i] = Repo(k, remote[i].total)]
    /\ changes' = changes + 1
    /\ prev' = NoPrev
    /\ UNCHANGED <<file, localVars, mainVars, tally>>

\* ... repository i disappears from the enumeration
RemoteRemove(i) ==
    /\ pc = "idle"
    /\ changes < MaxChanges
    /\ Len(remote) <= MaxRepos
    /\ remote' = [j \in 1..(Len(remote) - 1) |-> IF j < i THEN remote[j] ELSE remote[j + 1]]
    /\ changes' = changes + 1
    /\ prev' = NoPrev
    /\ UNCHANGED <<file, localVars, mainVars, tally>>

Next ==
    \/ \E fc \in BOOLEAN : StartRun(fc)
    \/ LocQueryNextPage
    \/ LocQueryLastPage
    \/ LocQueryFails
    \/ ReconcileMismatch
    \/ ReconcileEmpty
    \/ ReconcileCached
    \/ ReconcileStale
    \/ HistoryPageOk
    \/ HistoryMalformed
    \/ \E st \in FailureCodes : HistoryRetry(st)
    \/ \E st \in FailureCodes : HistoryFails(st)
    \/ ProcessRestart
    \/ \E i \in 1..Len(remote) : RemotePush(i)
    \/ \E k \in 1..MaxId, n \in 0..MaxCommits : RemoteAdd(k, n)
    \/ \E i \in 1..Len(remote) : RemoteRemove(i)
    \/ \E i \in 1..Len(remote), k \in 1..MaxId : RemoteRename(i, k)

Spec == Init /\ [][Next]_vars

\* One call of loc_query on one repository: the reducer and its caller
NextReduce ==
    \/ pc = "idle" /\ StartRun(FALSE)
    \/ LocQueryLastPage
    \/ ReconcileStale
    \/ HistoryPageOk
    \/ HistoryMalformed
    \/ \E st \in FailureCodes : HistoryRetry(st)
    \/ \E st \in FailureCodes : HistoryFails(st)

SpecReduce == InitReduce /\ [][NextReduce]_vars

\* The same call with the retries and the sleep of the reduction recorded, on
\* the histories of one page and of three pages
InitBudget ==
    /\ remote \in {OneHistory(1), OneHistory(MidHistoryLen)}
    /\ InitProgram
    /\ NoArchive
    /\ tally = TallyZero

SpecBudget == InitBudget /\ [][NextReduce]_vars

\* ------------------------------------------------------------------------
\* The process stops during a rewrite of the ledger file
\* ------------------------------------------------------------------------
\* the edges loc_query hands to cache_builder when the page it asked for is the last
Enumerated ==
    defaultEdges \o [i \in 1..(Len(remote) - cursor) |-> EdgeOf(remote[cursor + i])]

\* the ledger in memory after the loop handled its last line without a remote call
LastLineHandled ==
    IF HashMatches(data[index + 1], edges[index + 1])
       /\ edges[index + 1].defaultBranchRef.none
    THEN [data EXCEPT ![index + 1] = EmptyLine(data[index + 1])]
    ELSE data

\* with open(filename, "w") as f: f.writelines(...): open empties the file, the
\* lines reach it as the buffer fills and when it is closed. A process that
\* stops in between leaves the first k lines of content (none, for a file that
\* fits the buffer).
StopInWrite(content, k) ==
    /\ k < Len(content.lines)
    /\ file' = OnDisk(SubSeq(content.lines, 1, k))
    /\ pc' = "stopped"
    /\ UNCHANGED <<remote, defaultEdges, cursor, force_cache, edges, cached,
                   cache_comment, data, index, reducerVars, result, exc, data0,
                   lenBefore, refreshed, ghostFetch, malformed, glitch, prev, cmp,
                   runs, changes, mainVars, tally>>

\* ... in flush_cache, called by cache_builder for a rebuild
StopInFlushCache(k) ==
    /\ pc = "enum"
    /\ cursor + REPOS_PAGE_SIZE >= Len(remote)
    /\ file.exists
    /\ NeedsRebuild(Len(file.lines), Len(Enumerated), force_cache)
    /\ StopInWrite(flush_cache(Enumerated, file), k)

\* ... in force_close_file, called by recursive_loc on a status it does not retry
StopInForceClose(st, k) ==
    /\ pc = "fetch"
    /\ ~ShouldRetry(st, retry_count)
    /\ StopInWrite(force_close_file(data, cache_comment), k)

\* ... in the write at the end of cache_builder, after the last line was handled
StopInSave(k) ==
    /\ pc = "reconcile"
    /\ index + 1 = Len(edges)
    /\ ~(/\ HashMatches(data[index + 1], edges[index + 1])
          /\ ~edges[index + 1].defaultBranchRef.none
          /\ IsStale(data[index + 1], edges[index + 1]))
    /\ StopInWrite(SaveCache(LastLineHandled, cache_comment), k)

\* the lines that reached the file before the stop: none, part of the comment
\* block, the comment block, or the comment block and some data lines
MaxFlushed == COMMENT_SIZE + MaxRepos

NextFiles ==
    \/ Next
    \/ \E k \in 0..MaxFlushed : StopInFlushCache(k)
    \/ \E st \in FailureCodes, k \in 0..MaxFlushed : StopInForceClose(st, k)
    \/ \E k \in 0..MaxFlushed : StopInSave(k)

SpecFiles == InitFiles /\ [][NextFiles]_vars

\* the runs of the orchestrator on the user's ledger file, none of them stopped
SpecLedger == InitFiles /\ [][Next]_vars

\* ------------------------------------------------------------------------
\* The remote changes while a run is in progress
\* ------------------------------------------------------------------------
\* a commit is pushed to repository i after loc_query enumerated it and before
\* the first commit-history call for the line the loop is at
RemotePushInRun(i) ==
    /\ pc = "reconcile" \/ (pc = "fetch" /\ hcursor = 0 /\ pages = 0)
    /\ changes < MaxChanges
    /\ Len(remote) <= MaxRepos
    /\ remote[i].total < MaxCommits
    /\ remote' = [remote EXCEPT ![i] = Repo(remote[i].id, remote[i].total + 1)]
    /\ changes' = changes + 1
    /\ UNCHANGED <<file, localVars, prev, mainVars, tally>>

NextRace ==
    \/ Next
    \/ \E i \in 1..Len(remote) : RemotePushInRun(i)

SpecRace == Init /\ [][NextRace]_vars

\* ------------------------------------------------------------------------
\* Properties
\* ------------------------------------------------------------------------
\* cache_builder was entered in this run (its locals are meaningful)
InBuilder ==
    \/ pc \in {"reconcile", "fetch", "returned"}
    \/ pc = "raised" /\ exc # "loc_query"

\* the exception came out of recursive_loc
RaisedInReduction == pc = "raised" /\ exc \in {"rate_limit", "recursive_loc"}

\* the data lines of the ledger file
DiskLines == Slice(file.lines, COMMENT_SIZE, Len(file.lines))

\* the zeroed ledger of an enumeration
ZeroLedger(e) == [i \in 1..Len(e) |-> ZeroLine(sha256(e[i].nameWithOwner))]

\* the counts of the whole history of the repository of edge e: every commit
\* of the tracked author once
FullCount(e) ==
    CountRange([id |-> e.nameWithOwner[2], total |-> e.defaultBranchRef.totalCount],
               1, e.defaultBranchRef.totalCount)

\* what a run that handled line i (1-based) leaves in it
HandledLine(i) ==
    IF (i - 1) \in malformed THEN ZeroLine(data0[i].hash)
    ELSE IF (i - 1) \in refreshed
    THEN Line(sha256(edges[i].nameWithOwner), edges[i].defaultBranchRef.totalCount,
              FullCount(edges[i]).mine, FullCount(edges[i]).add, FullCount(edges[i]).del)
    ELSE IF data0[i].hash = sha256(edges[i].nameWithOwner)
            /\ edges[i].defaultBranchRef.none
    THEN ZeroLine(data0[i].hash)
    ELSE data0[i]

\* C1: when a commit-history call fails permanently while line index is being
\* refreshed, the file holds the header, this run's values for the lines before
\* index, and for the lines from index on the values they had when the
\* reconciliation started.
C1_PartialFailureDurability ==
    RaisedInReduction =>
        /\ file.exists
        /\ Slice(file.lines, 0, COMMENT_SIZE) = [i \in 1..COMMENT_SIZE |-> CommentLine]
        /\ Len(DiskLines) = Len(edges)
        /\ \A i \in 1..Len(edges) :
               DiskLines[i] = IF i <= index THEN HandledLine(i) ELSE data0[i]

\* a failure on the second line, after the first was refreshed, with a second
\* line that held counts from an earlier run
C1_Witness ==
    /\ RaisedInReduction
    /\ index = 1
    /\ 0 \in refreshed \ malformed
    /\ Len(edges) = 2
    /\ data0[2].total > 0
    /\ DiskLines[1] # data0[1]

\* C6: when the number of data lines found differs from the number of enumerated
\* repositories, or force_cache is set, the ledger the reconciliation starts from
\* is the zeroed ledger of the enumeration, in memory and on disk.
C6_RebuildTrigger ==
    (InBuilder /\ (lenBefore # Len(edges) \/ force_cache)) =>
        /\ data0 = ZeroLedger(edges)
        /\ (pc = "reconcile" /\ index = 0) =>
               /\ data = ZeroLedger(edges)
               /\ file = OnDisk([i \in 1..COMMENT_SIZE |-> CommentLine] \o ZeroLedger(edges))

\* the enumeration shrank by one against a ledger of two lines, no force_cache
C6_Witness ==
    /\ pc = "reconcile"
    /\ index = 0
    /\ ~force_cache
    /\ lenBefore = 2
    /\ Len(edges) = 1

\* a status that recursive_loc does not retry: not 200, and not a transient
\* one with retries left
PermanentStatus(st, rc) ==
    /\ st # STATUS_OK
    /\ ~(st \in TRANSIENT_ERROR_CODES /\ rc < MAX_RETRIES)

CurrentPage ==
    HistoryPage(CHOOSE r \in Lookup(edges[index + 1].nameWithOwner) : TRUE, hcursor)

\* C9: the delays of a page call's retries are 2, 4, 8 in that order; a page
\* call that succeeds after three transient statuses has slept 2, 4 and 8,
\* calls no force_close_file, raises nothing, and the reduction goes on with
\* the page at the same cursor, on top of the totals it had.
C9_RetryBackoff ==
    /\ []((pc = "fetch" /\ retry_count > 0) =>
              /\ retry_count <= 3
              /\ sleeps = SubSeq(<<2, 4, 8>>, 1, retry_count))
    /\ [][(pc = "fetch" /\ retry_count = 3 /\ status' = STATUS_OK
           /\ malformed' = malformed) =>
              /\ sleeps = <<2, 4, 8>>
              /\ flushes' = 0
              /\ exc' = "none"
              /\ pc' # "raised"
              /\ LET c == CountRange(CurrentPage, CurrentPage.lo, CurrentPage.hi)
                 IN IF pc' = "fetch"
                    THEN /\ hcursor' = CurrentPage.endCursor
                         /\ my_commits' = my_commits + c.mine
                         /\ addition_total' = addition_total + c.add
                         /\ deletion_total' = deletion_total + c.del
                    ELSE /\ data'[index + 1].mine = my_commits + c.mine
                         /\ data'[index + 1].add = addition_total + c.add
                         /\ data'[index + 1].del = deletion_total + c.del]_vars

\* the second page or a later one was answered after three retries, and the
\* reduction asks for the next page
C9_Witness ==
    /\ pc = "fetch"
    /\ status = STATUS_OK
    /\ sleeps = <<2, 4, 8>>
    /\ retry_count = 0
    /\ pages >= 2
    /\ my_commits > 0
    /\ flushes = 0

\* C2: a run that follows a run that returned, with the remote unchanged and
\* every call of both runs answered well, returns the same totals, leaves the
\* file as it was and reports cached.
C2_Idempotence ==
    (pc = "returned" /\ cmp.valid /\ ~glitch /\ ~force_cache) =>
        /\ SubSeq(result, 1, 3) = SubSeq(cmp.result, 1, 3)
        /\ file = cmp.file
        /\ result[4] = TRUE

\* C3: the ledger cache_builder works on, and the ledger it has persisted, has
\* one line per enumerated repository, line i holding the hash of enumeration
\* entry i.
C3_Alignment ==
    /\ InBuilder =>
           /\ Len(data) = Len(edges)
           /\ \A i \in 1..Len(data) : data[i].hash = sha256(edges[i].nameWithOwner)
    /\ pc = "returned" =>
           /\ Len(DiskLines) = Len(edges)
           /\ \A i \in 1..Len(DiskLines) :
                  DiskLines[i].hash = sha256(edges[i].nameWithOwner)

\* ceil(MAX_COMMITS_PER_REPO / 100) + 1
PageBound ==
    (MAX_COMMITS_PER_REPO + HISTORY_PAGE_SIZE - 1) \div HISTORY_PAGE_SIZE + 1

\* C4: the reduction of a repository of more than 5000 commits fetches at most
\* 51 pages and returns an authored-commit count of at most 5000.
C4_TruncationBound ==
    remote[1].total > MAX_COMMITS_PER_REPO =>
        /\ pages <= PageBound
        /\ pc = "returned" => data[1].mine <= MAX_COMMITS_PER_REPO

\* C5: a run in which the Reducer was invoked for some line returns
\* fromCache = false.
C5_FromCache ==
    (pc = "returned" /\ refreshed # {}) => result[4] = FALSE

\* C7: when the loop finds a line whose hash is not the hash of the repository
\* at its index, the line is not left in place: the ledger is rebuilt, so the
\* line at that index then holds the hash of that repository.
C7_MismatchRebuilds ==
    [][(pc = "reconcile" /\ data[index + 1].hash # sha256(edges[index + 1].nameWithOwner)) =>
           data'[index + 1].hash = sha256(edges[index + 1].nameWithOwner)]_vars

\* C10: after a commit-history call answered 200 with a malformed payload the
\* run has ended with an exception, and the line of that repository is as it
\* was read.
C10_NoSilentDiscard ==
    malformed # {} =>
        /\ pc = "raised"
        /\ exc # "none"
        /\ \A i \in malformed : data[i + 1] = data0[i + 1]

\* ------------------------------------------------------------------------
\* __main__ after loc_query: commit_counter, the profile queries, the archive
\* ------------------------------------------------------------------------
\* data[7 : len(data) - 3] in add_archive: the header and the footer of the archive
ARCHIVE_HEADER == 7
ARCHIVE_FOOTER == 3
\* old_data[-1].split()[4]: the token of the last line that holds the commit total
ARCHIVE_COMMITS_TOKEN == 5

\* a token of a line is the sequence of its characters
Digits == <<"0", "1", "2", "3", "4", "5", "6", "7", "8", "9">>
IsDigit(c) == \E i \in 1..10 : Digits[i] = c
DigitValue(c) == (CHOOSE i \in 1..10 : Digits[i] = c) - 1

\* int(tok) raises ValueError unless tok is a number; the tokens of the model
\* hold digits, letters and commas, so a number is one digit or more
IsInt(tok) == tok # <<>> /\ \A i \in 1..Len(tok) : IsDigit(tok[i])

RECURSIVE IntOf(_)
\* int(tok) of a token of digits
IntOf(tok) ==
    IF tok = <<>> THEN 0
    ELSE 10 * IntOf(SubSeq(tok, 1, Len(tok) - 1)) + DigitValue(tok[Len(tok)])

RECURSIVE StrOf(_)
\* str(n) of a natural number
StrOf(n) ==
    IF n < 10 THEN <<Digits[n + 1]>>
    ELSE StrOf(n \div 10) \o <<Digits[(n % 10) + 1]>>

\* a Python value that is a str, or an int
PyStr(tok) == [str |-> tok]
PyInt(n) == [int |-> n]
IsPyInt(v) == "int" \in DOMAIN v

\* int(v) succeeds
IntOk(v) == IsPyInt(v) \/ IsInt(v.str)
\* int(v)
Int_(v) == IF IsPyInt(v) THEN v.int ELSE IntOf(v.str)

\* return [0, 0, 0, 0, 0] of the except clause of add_archive
ArchiveZeros == <<0, 0, 0, PyInt(0), 0>>

\* repo_hash, total_commits, my_commits, *loc = line.split(); int(loc[0]);
\* int(loc[1]) raise nothing
ArchiveLineOk(line) == Len(line) >= 5 /\ IsInt(line[4]) /\ IsInt(line[5])

RECURSIVE ArchiveSum(_, _, _)
\* added_loc (f = 4) or deleted_loc (f = 5) after the first n lines of d
ArchiveSum(d, f, n) ==
    IF n = 0 THEN 0 ELSE ArchiveSum(d, f, n - 1) + IntOf(d[n][f])

\* add_archive with the archive file a
add_archive(a) ==
    IF ~a.exists THEN ArchiveZeros
    ELSE LET old_data == a.lines
             d == Slice(old_data, ARCHIVE_HEADER, Len(old_data) - ARCHIVE_FOOTER)
         IN IF \E i \in 1..Len(d) : ~ArchiveLineOk(d[i]) THEN ArchiveZeros
            ELSE IF old_data = <<>> THEN ArchiveZeros
            ELSE IF Len(old_data[Len(old_data)]) < ARCHIVE_COMMITS_TOKEN THEN ArchiveZeros
            ELSE LET tok == old_data[Len(old_data)][ARCHIVE_COMMITS_TOKEN]
                     added_loc == ArchiveSum(d, 4, Len(d))
                     deleted_loc == ArchiveSum(d, 5, Len(d))
                 IN <<added_loc, deleted_loc, added_loc - deleted_loc,
                      PyStr(SubSeq(tok, 1, Len(tok) - 1)), Len(d)>>

\* a count that reads the second field of the line, the total-commit count
commit_counter_second_field(f) ==
    LET d == Slice(f.lines, COMMENT_SIZE, Len(f.lines))
    IN SumLines(d, "total", 1, Len(d))

\* commit_counter(7): the sum of the third field over the data lines of the file
commit_counter(f) ==
    LET d == Slice(f.lines, COMMENT_SIZE, Len(f.lines))
    IN SumLines(d, "mine", 1, Len(d))

\* the answers of the profile queries: the stars of the owned repositories, the
\* owned repositories, the repositories of all affiliations, the followers
StarsAnswer == 4
FollowersAnswer == 9
ReposAnswer == Len(remote)
ContribAnswer == Len(remote)

\* the values __main__ holds before the archive is looked at
LiveOut ==
    [written |-> TRUE, added |-> result[1], deleted |-> result[2], net |-> result[3],
     cached |-> result[4], commits |-> commit_counter(file), stars |-> StarsAnswer,
     repos |-> ReposAnswer, contrib |-> ContribAnswer, followers |-> FollowersAnswer]

\* a merge that adds the repository count to the commits and the commit total
\* to the repositories
MergeArchiveSwapped(live, archived_data) ==
    [live EXCEPT !.added = @ + archived_data[1],
                 !.deleted = @ + archived_data[2],
                 !.net = @ + archived_data[3],
                 !.contrib = @ + Int_(archived_data[4]),
                 !.commits = @ + archived_data[5]]

\* total_loc[index] += archived_data[index] for index 0, 1, 2;
\* contrib_data += archived_data[-1]; commit_data += int(archived_data[-2])
MergeArchive(live, archived_data) ==
    [live EXCEPT !.added = @ + archived_data[1],
                 !.deleted = @ + archived_data[2],
                 !.net = @ + archived_data[3],
                 !.contrib = @ + archived_data[5],
                 !.commits = @ + Int_(archived_data[4])]

\* __main__ from the return of loc_query to svg_overwrite
MainAfterLoc ==
    /\ pc = "returned"
    /\ IF primary /\ ~IntOk(add_archive(archive)[4])
       THEN \* int(archived_data[-2]) raises ValueError: nothing is written
            /\ pc' = "raised"
            /\ exc' = "ValueError"
            /\ out' = out
       ELSE /\ pc' = "done"
            /\ exc' = exc
            /\ out' = IF primary THEN MergeArchive(LiveOut, add_archive(archive))
                      ELSE LiveOut
    /\ UNCHANGED <<remote, file, defaultEdges, cursor, force_cache, edges, cached,
                   cache_comment, data, index, reducerVars, result, data0, lenBefore,
                   refreshed, ghostFetch, malformed, glitch, prev, cmp, runs, changes,
                   archive, primary, tally>>

\* the archive files a behaviour of __main__ starts with. A file in the
\* documented shape: ARCHIVE_HEADER comment lines, one line
\* "<hash> <total> <mine> <added> <deleted>" per repository, ARCHIVE_FOOTER
\* lines of which the last holds "<commits>," as its fifth token
Tok(c) == <<c>>
ArchiveComment == <<Tok("c")>>
ArchiveDataLine(added, deleted) ==
    <<Tok("h"), StrOf(added + deleted), StrOf(1), StrOf(added), StrOf(deleted)>>
ArchiveFooter(tok) ==
    <<ArchiveComment, ArchiveComment, <<Tok("t"), Tok("t"), Tok("t"), Tok("t"), tok>>>>
ArchiveLines(dataLines, tok) ==
    [i \in 1..ARCHIVE_HEADER |-> ArchiveComment] \o dataLines \o ArchiveFooter(tok)
ArchiveFile(p) ==
    OnDisk(ArchiveLines([i \in 1..Len(p.lines) |->
                             ArchiveDataLine(p.lines[i][1], p.lines[i][2])],
                        StrOf(p.commits) \o <<",">>))

\* what the well-formed archives hold: per repository <<added, deleted>>, and
\* the authored-commit total
ArchiveParams ==
    {[lines |-> <<>>, commits |-> 0],
     [lines |-> <<<<3, 1>>>>, commits |-> 12],
     [lines |-> <<<<60, 10>>, <<30, 30>>, <<10, 0>>>>, commits |-> 5]}
WellFormedArchives == {ArchiveFile(p) : p \in ArchiveParams}

\* no file; an empty file; two lines; the footer alone; a field that is not a
\* number; a line with four fields; a commit token that is not a number
MalformedArchives ==
    {NoFile,
     OnDisk(<<>>),
     OnDisk(<<ArchiveComment, ArchiveComment>>),
     OnDisk(ArchiveFooter(<<"5", ",">>)),
     OnDisk(ArchiveLines(<<<<Tok("h"), StrOf(4), StrOf(1), Tok("x"), StrOf(1)>>>>,
                         <<"5", ",">>)),
     OnDisk(ArchiveLines(<<<<Tok("h"), StrOf(4), StrOf(1), StrOf(3)>>>>, <<"5", ",">>)),
     OnDisk(ArchiveLines(<<ArchiveDataLine(3, 1)>>, <<"x", ",">>))}

\* one process of __main__: a small remote, no ledger file yet, an archive file
\* or none, and an identity that is the designated one or not
InitMain ==
    /\ remote \in SmallRemotes
    /\ InitProgram
    /\ archive \in WellFormedArchives \cup MalformedArchives
    /\ primary \in BOOLEAN
    /\ tally = TallyOff

NextMain ==
    \/ pc = "idle" /\ StartRun(FALSE)
    \/ LocQueryLastPage
    \/ LocQueryFails
    \/ ReconcileEmpty
    \/ ReconcileStale
    \/ HistoryPageOk
    \/ HistoryMalformed
    \/ \E st \in FailureCodes : HistoryRetry(st)
    \/ \E st \in FailureCodes : HistoryFails(st)
    \/ MainAfterLoc

SpecMain == InitMain /\ [][NextMain]_vars

\* the complete content the rewrite that starts in this state writes
PendingWrite ==
    CASE pc = "enum" -> flush_cache(Enumerated, file)
      [] pc = "fetch" -> force_close_file(data, cache_comment)
      [] OTHER -> SaveCache(LastLineHandled, cache_comment)

\* C11: a process that stops during a rewrite of the ledger file leaves the
\* complete old content or the complete new content in the file.
C11_AtomicPersist ==
    [][pc' = "stopped" => (file' = file \/ file' = PendingWrite)]_vars

RECURSIVE ParamSum(_, _, _)
\* the sum of component f of the first n <<added, deleted>> pairs of ls
ParamSum(ls, f, n) == IF n = 0 THEN 0 ELSE ParamSum(ls, f, n - 1) + ls[n][f]

\* the live values with the four numbers of archive p added, and the net
\* lines of code as netArchive says
Merged(live, p, netArchive) ==
    [live EXCEPT !.added = @ + ParamSum(p.lines, 1, Len(p.lines)),
                 !.deleted = @ + ParamSum(p.lines, 2, Len(p.lines)),
                 !.commits = @ + p.commits,
                 !.contrib = @ + Len(p.lines),
                 !.net = @ + netArchive]

C13_ArchiveNeverFatal ==
    (primary /\ archive \in MalformedArchives) =>
        /\ exc # "ValueError"
        /\ pc = "done" => out = LiveOut

\* C14: a repository that the enumeration shows without a default branch is
\* never handed to recursive_loc, and once the loop has passed its index its
\* line, in memory and in the file cache_builder writes, is "<hash> 0 0 0 0"
\* with the hash of its name.
C14_EmptyRepository ==
    InBuilder =>
        \A i \in 1..Len(edges) :
            edges[i].defaultBranchRef.none =>
                /\ (i - 1) \notin refreshed
                /\ i <= index => data[i] = ZeroLine(sha256(edges[i].nameWithOwner))
                /\ pc = "returned" =>
                       DiskLines[i] = ZeroLine(sha256(edges[i].nameWithOwner))

\* C15: a page call is retried at most 3 times; a transient status is
\* answered by a retry after 2, 4, 8 seconds while fewer than 3 retries were
\* made, and after the third retry by force_close_file and the exception, with
\* no further sleep.
C15_RetryBound ==
    /\ [](retry_count <= 3)
    /\ [][(pc = "fetch" /\ status' \in TRANSIENT_ERROR_CODES) =>
              IF retry_count < 3
              THEN /\ pc' = "fetch"
                   /\ retry_count' = retry_count + 1
                   /\ sleeps' = SubSeq(<<2, 4, 8>>, 1, retry_count + 1)
                   /\ flushes' = flushes
                   /\ file' = file
              ELSE /\ pc' = "raised"
                   /\ exc' = "recursive_loc"
                   /\ sleeps = <<2, 4, 8>>
                   /\ sleeps' = sleeps
                   /\ flushes' = flushes + 1
                   /\ file' = OnDisk(cache_comment \o data)]_vars

\* the call after the third retry of a later page was transient again
C15_Witness ==
    /\ pc = "raised"
    /\ exc = "recursive_loc"
    /\ status \in TRANSIENT_ERROR_CODES
    /\ sleeps = <<2, 4, 8>>
    /\ pages >= 1
    /\ flushes = 1

\* C16: a 403 on a page call is answered, with any number of retries left, by
\* force_close_file and the rate-limit exception, without a retry or a sleep;
\* no other status raises that exception.
C16_RateLimitPermanent ==
    /\ [][(pc = "fetch" /\ status' = STATUS_RATE_LIMIT) =>
              /\ pc' = "raised"
              /\ exc' = "rate_limit"
              /\ sleeps' = sleeps
              /\ flushes' = flushes + 1
              /\ file' = OnDisk(cache_comment \o data)]_vars
    /\ []((pc = "raised" /\ exc = "rate_limit") => status = STATUS_RATE_LIMIT)

\* a 403 after one retry, with two retries left
C16_Witness ==
    /\ pc = "raised"
    /\ exc = "rate_limit"
    /\ status = STATUS_RATE_LIMIT
    /\ sleeps = <<2>>
    /\ flushes = 1

\* C17: for a line whose hash matches and whose repository has a commit count,
\* recursive_loc is called when the loop reaches the line if and only if the
\* stored count differs from the remote count; a line with the remote count is
\* in the file the run leaves as it was read.
C17_StalenessOnly ==
    InBuilder =>
        \A i \in 1..Len(edges) :
            (HashMatches(data0[i], edges[i]) /\ ~edges[i].defaultBranchRef.none) =>
                LET differs == data0[i].total # edges[i].defaultBranchRef.totalCount
                    reached == \/ i <= index
                               \/ pc \in {"fetch", "raised"} /\ i = index + 1
                IN /\ (i - 1) \in refreshed <=> (differs /\ reached)
                   /\ (~differs /\ (pc = "returned" \/ RaisedInReduction)) =>
                          DiskLines[i] = data0[i]

\* a run that refreshed the first line, whose count had grown, and kept the
\* second, whose count had not
C17_Witness ==
    /\ pc = "returned"
    /\ ~force_cache
    /\ Len(edges) = 2
    /\ refreshed = {0}
    /\ data0[1].total > 0
    /\ data0[2].total > 0
    /\ HashMatches(data0[2], edges[2])
    /\ DiskLines[2] = data0[2]

\* the commits of repository k, of n commits, whose author is the tracked one
Authored(k, n) == {c \in 1..n : CommitAuthor(k, c) = OWNER_ID}

RECURSIVE AuthoredLines(_, _, _, _)
\* the additions (which = "add") or deletions of the commits lo..hi of
\* repository k that the tracked author made
AuthoredLines(k, which, lo, hi) ==
    IF lo > hi THEN 0
    ELSE IF lo = hi
    THEN IF CommitAuthor(k, lo) # OWNER_ID THEN 0
         ELSE IF which = "add" THEN CommitAdditions(k, lo) ELSE CommitDeletions(k, lo)
    ELSE LET mid == (lo + hi) \div 2
         IN AuthoredLines(k, which, lo, mid) + AuthoredLines(k, which, mid + 1, hi)

\* C18: a reduction of a repository of at most 5000 commits, with every call
\* answered well, returns the additions and deletions summed over the commits
\* of the tracked author and the number of those commits.
C18_ReducerResult ==
    (pc = "returned" /\ ~glitch /\ remote[1].total <= MAX_COMMITS_PER_REPO) =>
        /\ data[1].add = AuthoredLines(remote[1].id, "add", 1, remote[1].total)
        /\ data[1].del = AuthoredLines(remote[1].id, "del", 1, remote[1].total)
        /\ data[1].mine = Cardinality(Authored(remote[1].id, remote[1].total))

\* the history of three pages was reduced, with commits of other authors in it
C18_Witness ==
    /\ pc = "returned"
    /\ ~glitch
    /\ remote[1].total = MidHistoryLen
    /\ pages = 3
    /\ data[1].mine > HISTORY_PAGE_SIZE
    /\ data[1].mine < remote[1].total

\* C19: a reduction that is about to ask for another page has received fewer
\* than 5000 commits: the ceiling, the one stop that does not depend on what
\* the remote reports, ends it whatever the pattern of transient failures.
C19_ReducerTermination ==
    pc = "fetch" => pages * HISTORY_PAGE_SIZE < MAX_COMMITS_PER_REPO

\* C20: after any sequence of runs and rewrites the first COMMENT_SIZE lines
\* of the ledger file are the lines the user wrote, in their order.
C20_HeaderPreserved ==
    /\ file.exists
    /\ Slice(file.lines, 0, COMMENT_SIZE) = UserLedger.lines

\* a first run rebuilt the ledger and wrote it at its end; a second run with
\* force_cache rebuilt it again and failed, so that force_close_file wrote it
C20_Witness ==
    /\ RaisedInReduction
    /\ cmp.valid
    /\ force_cache
    /\ flushes = 1
    /\ Len(file.lines) > COMMENT_SIZE

\* C21: every data line of the ledger file holds an authored-commit count that
\* is at most its total-commit count, also when a commit is pushed between the
\* enumeration and the commit-history calls.
C21_AuthoredAtMostTotal ==
    \A i \in 1..Len(DiskLines) : DiskLines[i].mine <= DiskLines[i].total

RECURSIVE FieldSum(_, _, _)
\* the sum of field fld over the first n lines of ls
FieldSum(ls, fld, n) == IF n = 0 THEN 0 ELSE FieldSum(ls, fld, n - 1) + ls[n][fld]

\* C22: when loc_query has returned, the additions and deletions it returned
\* are the sums of the fourth and fifth fields over the data lines of the file
\* it wrote, the net is their difference, and commit_counter reads from that
\* file the sum of the third field, which is the commit total __main__ hands
\* over when no archive is merged.
C22_TotalsFold ==
    pc \in {"returned", "done"} =>
        /\ file.exists
        /\ result[1] = FieldSum(DiskLines, "add", Len(DiskLines))
        /\ result[2] = FieldSum(DiskLines, "del", Len(DiskLines))
        /\ result[3] = result[1] - result[2]
        /\ commit_counter(file) = FieldSum(DiskLines, "mine", Len(DiskLines))
        /\ (pc = "done" /\ ~primary) =>
               out.commits = FieldSum(DiskLines, "mine", Len(DiskLines))

\* a run over two repositories with commits, one of them holding a commit of
\* another author, ended and handed its totals over
C22_Witness ==
    /\ pc = "done"
    /\ ~primary
    /\ Len(DiskLines) = 2
    /\ DiskLines[1].mine > 0
    /\ DiskLines[2].mine > 0
    /\ DiskLines[2].mine < DiskLines[2].total
    /\ result[2] > 0
    /\ result[1] > result[2]
    /\ out.commits = DiskLines[1].mine + DiskLines[2].mine

\* the commits a reduction without any failure receives of a history of n
\* commits, and the pages it fetches
FailFreeLen(n) == Min(n, MAX_COMMITS_PER_REPO)
FailFreePages(n) == (FailFreeLen(n) + HISTORY_PAGE_SIZE - 1) \div HISTORY_PAGE_SIZE

\* the counts of the newest n commits of repository r
NewestCount(r, n) == CountRange([id |-> r.id, total |-> r.total], 1, n)

\* C23: a retry of a page call keeps the cursor, the accumulated additions,
\* deletions and authored count and the commits-fetched counter; a reduction
\* that returns, with or without retries, has fetched the pages and returns
\* the counts of the reduction without any failure.
C23_RetryTransparency ==
    /\ [][(pc = "fetch" /\ status' \in TRANSIENT_ERROR_CODES /\ pc' = "fetch") =>
              /\ hcursor' = hcursor
              /\ addition_total' = addition_total
              /\ deletion_total' = deletion_total
              /\ my_commits' = my_commits
              /\ commits_fetched' = commits_fetched]_vars
    /\ []((pc = "returned" /\ malformed = {}) =>
              LET c == NewestCount(remote[1], FailFreeLen(remote[1].total))
              IN /\ pages = FailFreePages(remote[1].total)
                 /\ data[1].mine = c.mine
                 /\ data[1].add = c.add
                 /\ data[1].del = c.del)

\* the pages the reduction has asked for: the pages answered well, and the one
\* a call is in progress for, has failed for or was answered with a malformed
\* payload
PagesAsked ==
    IF pc = "fetch" \/ RaisedInReduction \/ malformed # {} THEN pages + 1 ELSE pages

\* the seconds slept when a page call is retried MAX_RETRIES times
FullBackoff == RetryDelay(0) + RetryDelay(1) + RetryDelay(2)

\* C24: the call for a new page starts with retry_count 0 whatever the count
\* of the page before was, a page call is retried at most 3 times, and the
\* retries of one reduction are at most 3 and the seconds it sleeps at most
\* 2 + 4 + 8 for each page it asked for.
C24_RetryBudgetScope ==
    /\ [][(pc = "fetch" /\ pc' = "fetch" /\ pages' = pages + 1) => retry_count' = 0]_vars
    /\ [](retry_count <= MAX_RETRIES)
    /\ [](tally.retries <= MAX_RETRIES * PagesAsked)
    /\ [](tally.slept <= FullBackoff * PagesAsked)

\* every page of the history of three pages was answered after three retries
C24_Witness ==
    /\ pc = "returned"
    /\ malformed = {}
    /\ pages = 3
    /\ tally.retries = 3 * MAX_RETRIES
    /\ tally.slept = 3 * FullBackoff

\* the repositories of the remote, each once and in page order, as edges
CurrentEnumeration == [i \in 1..Len(remote) |-> EdgeOf(remote[i])]

\* C25: the list cache_builder is handed by a call of loc_query holds the
\* repositories of the enumeration that call made, each once and in page
\* order, whatever earlier calls of the same process enumerated.
C25_EnumerationIsolation ==
    InBuilder => edges = CurrentEnumeration

\* the commit count the enumeration reports for an edge: 0 without a default branch
RemoteTotal(edge) ==
    IF edge.defaultBranchRef.none THEN 0 ELSE edge.defaultBranchRef.totalCount

\* the run before this one returned, and the remote has not changed since
FollowsReturn == cmp.result # <<>>

\* C26: when cache_builder has returned, every line of the ledger stores as
\* its total the commit count the enumeration reported at its index; a run
\* that follows a run that returned, with the remote unchanged and no
\* force_cache, calls recursive_loc for no line.
C26_CacheConvergence ==
    /\ pc = "returned" =>
           /\ Len(DiskLines) = Len(edges)
           /\ \A i \in 1..Len(edges) : DiskLines[i].total = RemoteTotal(edges[i])
    /\ (FollowsReturn /\ ~force_cache) => refreshed = {}

====
